---- MODULE Spec2Model ----
(***************************************************************************)
(* rpp-net: the citation-network crawler (src/rpp-net/src/fetch_network.py),*)
(* the feature extraction (compute_features.py) and the batch worker       *)
(* (run_worker.py), modelled as state machines over one set of variables:  *)
(*   Spec      - one _crawl invocation: the breadth-first traversal loop,  *)
(*               one action per way a loop iteration can end;              *)
(*   SpecFetch - _get_json seen at its await points, with the shared       *)
(*               _last_call timestamp, the asyncio lock and a clock.       *)
(*   SpecFeat  - a crawl followed by features_from_network over the dict   *)
(*               it returned;                                              *)
(*   SpecLive  - Spec with the fairness of the event loop;                 *)
(*   SpecWorker- the loop of run_worker.main over the roots of a chunk.    *)
(* GetJson is the control skeleton of _get_json as a function of the       *)
(* server's answers; the crawl uses it for the outcome of each fetch.      *)
(***************************************************************************)
EXTENDS Integers, Sequences, FiniteSets, TLC

VARIABLES
    \* ---- _crawl ----
    cutoff,         \* parameter cutoff
    max_depth,      \* parameter max_depth
    max_nodes,      \* parameter max_nodes
    frontier,       \* list of <<doi, depth>>
    visited,        \* set of doi
    nodes,          \* dict doi -> meta
    node_order,     \* the insertion order of the keys of `nodes`
    edges,          \* list of <<doi, ref_doi>>
    authors,        \* dict author_id -> author record
    author_edges,   \* list of <<author_id, doi>>
    pc,             \* "loop" | "done" | "raised"  (position of _crawl)
    network,        \* <<>> until _crawl returns, then <<the returned dict>>
    fetch_log,      \* history: doi -> [depth, result, fetches] per doi fetched
    \* ---- _get_json and the module globals ----
    callers,        \* the tasks that call _get_json (input)
    menu,           \* the answers the server may give (input)
    since_last,     \* time.time() - _last_call, saturating at MIN_DELAY
    lock,           \* _lock: the task holding it, or NoTask
    fpc,            \* task -> position of its _get_json call
    attempt,        \* task -> loop variable `attempt`
    backoff,        \* task -> local `backoff`, in seconds
    timer,          \* task -> ticks left of the asyncio.sleep it is in
    result,         \* task -> "" | "json" | "none" | "raise"
    resps,          \* history: task -> the answers it received
    sleeps,         \* history: task -> the retry sleeps it asked for
    nreq,           \* history: task -> number of session.get calls
    admitted,       \* history: number of writes of _last_call
    span,           \* history: ticks since the first write of _last_call
    \* ---- features_from_network (compute_features.py) ----
    world,          \* the author API: what each lookup answers (input)
    xpc,            \* "idle" | "ok" | "raised"  (features_from_network)
    feats,          \* <<>> until features_from_network returns its dict
    lookups,        \* history: the <<author_id, year>> of every lookup made
    \* ---- run_worker.main ----
    chunk,          \* df.doi: the roots of the chunk, in order (input)
    idx,            \* the loop variable i: roots already gone through
    plan,           \* per root: what its crawl and its extraction do (input)
    out_rows,       \* list of feature rows
    raw_files,      \* data/networks_raw: file name -> what was written
    csv,            \* <<>> until out_path is written, then <<its rows>>
    wpc,            \* "idle" | "loop" | "done" | "aborted"  (main)
    worker_log      \* the log: per root gone through, "done" or "failed"

crawlVars == <<cutoff, max_depth, max_nodes, frontier, visited, nodes,
               node_order, edges, authors, author_edges, pc, network, fetch_log>>

fetchVars == <<callers, menu, since_last, lock, fpc, attempt, backoff, timer,
               result, resps, sleeps, nreq, admitted, span>>

featVars == <<world, xpc, feats, lookups>>

workVars == <<chunk, idx, plan, out_rows, raw_files, csv, wpc, worker_log>>

vars == <<crawlVars, fetchVars, featVars, workVars>>

\* ------------------------------------------------------------------ bounds
MaxDepth == 2       \* max_depth ranges over 0..MaxDepth
MaxNodes == 3       \* max_nodes ranges over 0..MaxNodes
MaxYear  == 2       \* publication years and cutoffs range over 1..MaxYear

\* ------------------------------------------------------- program constants
retries      == 3   \* _get_json(session, url, retries=3)
n_concurrent == 32  \* get_ego_network(..., n_concurrent=32)

\* ------------------------------------------------------------- the inputs
Papers   == {"W0", "W1", "W2"}
root_doi == "W0"
Years    == 1..MaxYear

\* An optional dict key is a set with at most one element.
Get(opt, default) == IF opt = {} THEN default ELSE CHOOSE v \in opt : TRUE

\* An entry of referenced_works is a URL; a URL is the list of its "/"-parts.
WorkUrl(p) == <<"https:", "", "openalex.org", p>>

RefLists == {<< >>,
             <<WorkUrl("W1"), WorkUrl("W2")>>,
             <<WorkUrl("W2"), WorkUrl("W2")>>,
             <<WorkUrl("W1"), WorkUrl("W0")>>}

Author(id, name) == [id |-> id, display_name |-> name]
Authorship(a)    == [author |-> a]

AuthorshipLists ==
    {<<Authorship({Author({"A1"}, "n1")}), Authorship({Author({"A2"}, "n2")})>>,
     <<Authorship({}), Authorship({Author({}, "n3")}),
       Authorship({Author({"A1"}, "n4")})>>}

Metas == [publication_year : {{}} \cup {{y} : y \in Years},
          referenced_works : RefLists,
          authorships      : AuthorshipLists]

\* ---------------------------------------------------------------- _get_json
\* Time is counted in ticks of 0.05 s.
Sec(n)    == n * 20
MIN_DELAY == 2                      \* 0.1 s
Jitters   == {0, 9}                 \* samples of random.uniform(0, 0.5)

Max(a, b) == IF a >= b THEN a ELSE b
Min(a, b) == IF a <= b THEN a ELSE b

Tasks  == {"t1", "t2"}
NoTask == "-"

\* "err" stands for every aiohttp.ClientError / asyncio.TimeoutError, the
\* ClientResponseError of raise_for_status() included.
Status  == {"200", "404", "429", "err"}

\* A Retry-After header: absent, decimal digits, an HTTP date (value: the
\* seconds from now to it) or text that is neither.
Hdr(form, value) == [form |-> form, value |-> value]
NoHeader         == Hdr("absent", 0)
RetryAfterHeaders == {NoHeader, Hdr("int", 2), Hdr("date", 0 - 1), Hdr("junk", 0)}

Answer(status, h) == [status |-> status, retry_after |-> h]
AllAnswers == {Answer("200", NoHeader), Answer("404", NoHeader), Answer("err", NoHeader)}
              \cup {Answer("429", h) : h \in RetryAfterHeaders}
QuickAnswers == {Answer("200", NoHeader), Answer("404", NoHeader),
                 Answer("429", Hdr("date", 0 - 1))}

\* retry_after = r.headers.get("Retry-After", str(backoff)) and its parsing.
RetrySeconds(h, bo) ==
    LET ra == IF h.form = "absent" THEN Hdr("int", bo) ELSE h IN
    CASE ra.form = "int"  -> ra.value                  \* int(retry_after)
      [] ra.form = "date" -> Max(0, ra.value)          \* mktime_tz(..) - time.time()
      [] OTHER            -> bo                        \* parsedate_tz(..) is None

\* Fault variant: the last attempt is never recognised.
IsLastAttemptOffByOne(a) == a = retries

IsLastAttempt(a) == a = retries - 1

\* Fault variant: the server's delay is left out of the sleep.
SleepJitterOnly(h, bo, jitter) == jitter

\* Ticks of `await asyncio.sleep(retry + jitter)` after a 429.
Sleep429(h, bo, jitter) == Sec(RetrySeconds(h, bo)) + jitter

\* Ticks of `await asyncio.sleep(backoff + random.uniform(0, 0.5))`.
SleepErr(bo, jitter) == Sec(bo) + jitter

\* wait = max(0, MIN_DELAY - (time.time() - _last_call))
Wait == Max(0, MIN_DELAY - since_last)

\* Fault variant: the critical section is entered without the lock.
LockIgnored == TRUE

LockFree == lock = NoTask

SpanCap == (retries * Cardinality(Tasks) - 1) * MIN_DELAY

Scripts == [1..retries -> Status]

\* The for-loop of _get_json from iteration `attempt` (0-based) on, the server
\* answering script[attempt+1] to the request of that iteration.
RECURSIVE GetJsonFrom(_, _)
GetJsonFrom(script, a) ==
    IF a >= retries
    THEN [kind |-> "none", requests |-> a]          \* loop ends: None
    ELSE LET r == script[a + 1] IN
         CASE r = "429" -> GetJsonFrom(script, a + 1)    \* continue
           [] r = "404" -> [kind |-> "none", requests |-> a + 1]
           [] r = "200" -> [kind |-> "json", requests |-> a + 1]
           [] OTHER     -> IF IsLastAttempt(a)
                           THEN [kind |-> "raise", requests |-> a + 1]
                           ELSE GetJsonFrom(script, a + 1)

GetJson(script) == GetJsonFrom(script, 0)

\* The ways one call can end, over all the server may answer.
Outcomes == {GetJson(script).kind : script \in Scripts}

\* Why a fetch that returned None did so.
NoneReason(script) ==
    IF script[GetJson(script).requests] = "404" THEN "notfound" ELSE "exhausted"

\* ------------------------------------------------------------------- _crawl
\* `async with sem:` - _crawl awaits each fetch before the next, so no permit
\* is ever held when one is asked for.
SemFree == n_concurrent >= 1

\* Fault variant: one iteration too many.
LoopCondInclusive == frontier # << >> /\ Cardinality(DOMAIN nodes) <= max_nodes

LoopCond == frontier # << >> /\ Cardinality(DOMAIN nodes) < max_nodes

\* Fault variant: the cutoff compared one year late.
AfterCutoffLate(meta) == Get(meta.publication_year, 0) > cutoff + 1

AfterCutoff(meta) == Get(meta.publication_year, 0) > cutoff

\* Fault variant: nodes at max_depth are expanded too.
ShouldExpandInclusive(depth) == depth <= max_depth

ShouldExpand(depth) == depth < max_depth

RefDoi(ref) == ref[Len(ref)]                        \* ref.split("/")[-1]

\* Fault variant: the pair stored the wrong way round.
NewEdgesReversed(doi, refs) == [i \in 1..Len(refs) |-> <<RefDoi(refs[i]), doi>>]

NewEdges(doi, refs)    == [i \in 1..Len(refs) |-> <<doi, RefDoi(refs[i])>>]
NewFrontier(depth, refs) == [i \in 1..Len(refs) |-> <<RefDoi(refs[i]), depth + 1>>]

HasAuthorId(ship) == ship.author # {} /\ Get(ship.author, [id |-> {}]).id # {}
AuthorOf(ship)    == CHOOSE a \in ship.author : TRUE
AuthorId(ship)    == CHOOSE i \in AuthorOf(ship).id : TRUE

\* Fault variant: the record of a known author is overwritten.
RECURSIVE UpsertAuthorsOverwrite(_, _)
UpsertAuthorsOverwrite(auths, ships) ==
    IF ships = << >> THEN auths
    ELSE LET s == Head(ships) IN
         IF HasAuthorId(s)
         THEN UpsertAuthorsOverwrite((AuthorId(s) :> AuthorOf(s)) @@ auths, Tail(ships))
         ELSE UpsertAuthorsOverwrite(auths, Tail(ships))

RECURSIVE UpsertAuthors(_, _)
UpsertAuthors(auths, ships) ==
    IF ships = << >> THEN auths
    ELSE LET s == Head(ships) IN
         IF HasAuthorId(s) /\ AuthorId(s) \notin DOMAIN auths
         THEN UpsertAuthors(auths @@ (AuthorId(s) :> AuthorOf(s)), Tail(ships))
         ELSE UpsertAuthors(auths, Tail(ships))

RECURSIVE NewAuthorEdges(_, _)
NewAuthorEdges(doi, ships) ==
    IF ships = << >> THEN << >>
    ELSE IF HasAuthorId(Head(ships))
         THEN <<<<AuthorId(Head(ships)), doi>>>> \o NewAuthorEdges(doi, Tail(ships))
         ELSE NewAuthorEdges(doi, Tail(ships))

\* The log entry of a fetch; `fetches` counts the fetches of the same doi.
Logged(doi, depth, res) ==
    (doi :> [depth |-> depth, result |-> res,
             fetches |-> IF doi \in DOMAIN fetch_log
                         THEN fetch_log[doi].fetches + 1 ELSE 1]) @@ fetch_log

\* Fault variant: the identifier is not remembered.
MarkVisitedForgets(doi) == visited

\* visited.add(doi)
MarkVisited(doi) == visited \cup {doi}

CrawlStart ==
    /\ frontier = <<<<root_doi, 0>>>>
    /\ visited = {}
    /\ nodes = << >>
    /\ node_order = << >>
    /\ edges = << >>
    /\ authors = << >>
    /\ author_edges = << >>
    /\ network = << >>
    /\ fetch_log = << >>

FetchStart ==
    /\ since_last = MIN_DELAY           \* _last_call = 0.0: long ago
    /\ lock = NoTask
    /\ fpc = [t \in Tasks |-> IF t \in callers THEN "top" ELSE "off"]
    /\ attempt = [t \in Tasks |-> 0]
    /\ backoff = [t \in Tasks |-> 2]
    /\ timer = [t \in Tasks |-> 0]
    /\ result = [t \in Tasks |-> ""]
    /\ resps = [t \in Tasks |-> << >>]
    /\ sleeps = [t \in Tasks |-> << >>]
    /\ nreq = [t \in Tasks |-> 0]
    /\ admitted = 0
    /\ span = 0

FeatStart ==
    /\ world = << >>
    /\ xpc = "idle"
    /\ feats = << >>
    /\ lookups = << >>

WorkStart ==
    /\ chunk = << >>
    /\ idx = 0
    /\ plan = << >>
    /\ out_rows = << >>
    /\ raw_files = << >>
    /\ csv = << >>
    /\ wpc = "idle"
    /\ worker_log = << >>

\* One crawl; its fetches are taken whole (GetJson).
Init ==
    /\ cutoff \in Years
    /\ max_depth \in 0..MaxDepth
    /\ max_nodes \in 0..MaxNodes
    /\ pc = "loop"
    /\ CrawlStart
    /\ callers = {} /\ menu = {}
    /\ FetchStart
    /\ FeatStart
    /\ WorkStart

\* ------------------------------------------------------------------ _crawl
\* Fault variant: the entry is read but left at the head of the frontier.
SkipVisitedNoPop ==
    /\ pc = "loop" /\ LoopCond
    /\ frontier[1][1] \in visited
    /\ UNCHANGED vars

\* `if doi in visited: continue`
SkipVisited ==
    /\ pc = "loop" /\ LoopCond
    /\ frontier[1][1] \in visited
    /\ frontier' = Tail(frontier)
    /\ UNCHANGED <<cutoff, max_depth, max_nodes, visited, nodes, node_order,
                   edges, authors, author_edges, pc, network, fetch_log>>
    /\ UNCHANGED <<fetchVars, featVars, workVars>>

\* _get_json raises on its last attempt; nothing in _crawl catches it.
FetchRaises ==
    /\ pc = "loop" /\ LoopCond
    /\ LET doi == frontier[1][1]
           depth == frontier[1][2] IN
       /\ doi \notin visited
       /\ SemFree
       /\ "raise" \in Outcomes
       /\ frontier' = Tail(frontier)
       /\ visited' = MarkVisited(doi)
       /\ fetch_log' = Logged(doi, depth, "raise")
       /\ pc' = "raised"
    /\ UNCHANGED <<cutoff, max_depth, max_nodes, nodes, node_order, edges,
                   authors, author_edges, network>>
    /\ UNCHANGED <<fetchVars, featVars, workVars>>

\* `if meta is None: continue`
FetchNone ==
    /\ pc = "loop" /\ LoopCond
    /\ LET doi == frontier[1][1]
           depth == frontier[1][2] IN
       /\ doi \notin visited
       /\ SemFree
       /\ \E why \in {NoneReason(script) :
                         script \in {x \in Scripts : GetJson(x).kind = "none"}} :
            /\ frontier' = Tail(frontier)
            /\ visited' = MarkVisited(doi)
            /\ fetch_log' = Logged(doi, depth, why)
    /\ UNCHANGED <<cutoff, max_depth, max_nodes, nodes, node_order, edges,
                   authors, author_edges, pc, network>>
    /\ UNCHANGED <<fetchVars, featVars, workVars>>

\* `if meta.get("publication_year", 0) > cutoff: continue`
PruneCutoff ==
    /\ pc = "loop" /\ LoopCond
    /\ LET doi == frontier[1][1]
           depth == frontier[1][2] IN
       /\ doi \notin visited
       /\ SemFree
       /\ "json" \in Outcomes
       /\ \E meta \in Metas :
            /\ AfterCutoff(meta)
            /\ frontier' = Tail(frontier)
            /\ visited' = MarkVisited(doi)
            /\ fetch_log' = Logged(doi, depth, "cutoff")
    /\ UNCHANGED <<cutoff, max_depth, max_nodes, nodes, node_order, edges,
                   authors, author_edges, pc, network>>
    /\ UNCHANGED <<fetchVars, featVars, workVars>>

\* The rest of the loop body: record the node, expand it, collect its authors.
RecordNode ==
    /\ pc = "loop" /\ LoopCond
    /\ LET doi == frontier[1][1]
           depth == frontier[1][2] IN
       /\ doi \notin visited
       /\ SemFree
       /\ "json" \in Outcomes
       /\ \E meta \in Metas :
            /\ ~AfterCutoff(meta)
            /\ visited' = MarkVisited(doi)
            /\ nodes' = (doi :> meta) @@ nodes
            /\ node_order' = IF doi \in DOMAIN nodes THEN node_order
                              ELSE Append(node_order, doi)
            /\ IF ShouldExpand(depth)
               THEN /\ edges' = edges \o NewEdges(doi, meta.referenced_works)
                    /\ frontier' = Tail(frontier)
                                     \o NewFrontier(depth, meta.referenced_works)
               ELSE /\ edges' = edges
                    /\ frontier' = Tail(frontier)
            /\ authors' = UpsertAuthors(authors, meta.authorships)
            /\ author_edges' = author_edges \o NewAuthorEdges(doi, meta.authorships)
            /\ fetch_log' = Logged(doi, depth, "recorded")
    /\ UNCHANGED <<cutoff, max_depth, max_nodes, pc, network>>
    /\ UNCHANGED <<fetchVars, featVars, workVars>>

\* One iteration of `while frontier and len(nodes) < max_nodes`.
Iterate == SkipVisited \/ FetchRaises \/ FetchNone \/ PruneCutoff \/ RecordNode

\* Fault variant: nodes[root_doi] read without the membership test (KeyError).
ReturnUnchecked ==
    /\ pc = "loop" /\ ~LoopCond
    /\ IF root_doi \in DOMAIN nodes
       THEN /\ pc' = "done"
            /\ network' = <<[nodes |-> nodes, order |-> node_order,
                             edges |-> edges, authors |-> authors,
                             author_edges |-> author_edges,
                             root_meta |-> {nodes[root_doi]}]>>
       ELSE /\ pc' = "raised"
            /\ UNCHANGED network
    /\ UNCHANGED <<cutoff, max_depth, max_nodes, frontier, visited, nodes,
                   node_order, edges, authors, author_edges, fetch_log>>
    /\ UNCHANGED <<fetchVars, featVars, workVars>>

\* The loop condition fails: build and return the dict.
Return ==
    /\ pc = "loop" /\ ~LoopCond
    /\ pc' = "done"
    /\ network' = <<[nodes |-> nodes, order |-> node_order,
                             edges |-> edges, authors |-> authors,
                     author_edges |-> author_edges,
                     root_meta |-> IF root_doi \in DOMAIN nodes
                                   THEN {nodes[root_doi]} ELSE {}]>>
    /\ UNCHANGED <<cutoff, max_depth, max_nodes, frontier, visited, nodes,
                   node_order, edges, authors, author_edges, fetch_log>>
    /\ UNCHANGED <<fetchVars, featVars, workVars>>

Next == Iterate \/ Return

Spec == Init /\ [][Next]_vars

\* The event loop runs the coroutine whenever it can go on, and every fetch
\* it awaits comes back (with a value or an exception).
SpecLive == Spec /\ WF_vars(Next)

\* --------------------------------------------------------------- _get_json
\* `_last_call = time.time()`, the lock released, `session.get(url)` sent.
Admit(t) ==
    /\ since_last' = 0
    /\ admitted' = admitted + 1
    /\ span' = IF admitted = 0 THEN 0 ELSE span
    /\ fpc' = [fpc EXCEPT ![t] = "request"]
    /\ nreq' = [nreq EXCEPT ![t] = @ + 1]

\* `async with _lock:` entered; with wait = 0 the block runs to its end.
Enter(t) ==
    /\ fpc[t] = "top" /\ LockFree
    /\ IF Wait > 0
       THEN /\ lock' = t
            /\ fpc' = [fpc EXCEPT ![t] = "pacing"]
            /\ timer' = [timer EXCEPT ![t] = Wait]       \* asyncio.sleep(wait)
            /\ UNCHANGED <<since_last, admitted, span, nreq>>
       ELSE /\ Admit(t)
            /\ UNCHANGED <<lock, timer>>
    /\ UNCHANGED <<callers, menu, attempt, backoff, result, resps, sleeps>>
    /\ UNCHANGED <<crawlVars, featVars, workVars>>

\* asyncio.sleep(wait) is over.
Paced(t) ==
    /\ fpc[t] = "pacing" /\ timer[t] = 0
    /\ Admit(t)
    /\ lock' = NoTask
    /\ UNCHANGED <<callers, menu, attempt, backoff, timer, result, resps, sleeps>>
    /\ UNCHANGED <<crawlVars, featVars, workVars>>

Received(t, r) == resps' = [resps EXCEPT ![t] = Append(@, r)]

StartSleep(t, cause, ticks) ==
    /\ fpc' = [fpc EXCEPT ![t] = "backoff"]
    /\ timer' = [timer EXCEPT ![t] = ticks]
    /\ sleeps' = [sleeps EXCEPT ![t] = Append(@, [cause |-> cause, ticks |-> ticks])]
    /\ backoff' = [backoff EXCEPT ![t] = @ * 2]

\* `if r.status == 429:` ... `continue`
Answer429(t) ==
    /\ fpc[t] = "request"
    /\ \E r \in menu, jitter \in Jitters :
         /\ r.status = "429"
         /\ Received(t, r)
         /\ StartSleep(t, "429", Sleep429(r.retry_after, backoff[t], jitter))
    /\ UNCHANGED <<callers, menu, since_last, lock, attempt, result, nreq,
                   admitted, span>>
    /\ UNCHANGED <<crawlVars, featVars, workVars>>

\* `if r.status == 404:` ... `return None`
Answer404(t) ==
    /\ fpc[t] = "request"
    /\ \E r \in menu :
         /\ r.status = "404"
         /\ Received(t, r)
    /\ fpc' = [fpc EXCEPT ![t] = "done"]
    /\ result' = [result EXCEPT ![t] = "none"]
    /\ UNCHANGED <<callers, menu, since_last, lock, attempt, backoff, timer,
                   sleeps, nreq, admitted, span>>
    /\ UNCHANGED <<crawlVars, featVars, workVars>>

\* `r.raise_for_status(); return await r.json()`
Answer200(t) ==
    /\ fpc[t] = "request"
    /\ \E r \in menu :
         /\ r.status = "200"
         /\ Received(t, r)
    /\ fpc' = [fpc EXCEPT ![t] = "done"]
    /\ result' = [result EXCEPT ![t] = "json"]
    /\ UNCHANGED <<callers, menu, since_last, lock, attempt, backoff, timer,
                   sleeps, nreq, admitted, span>>
    /\ UNCHANGED <<crawlVars, featVars, workVars>>

\* `except (aiohttp.ClientError, asyncio.TimeoutError)`, not the last attempt.
AnswerErrRetry(t) ==
    /\ fpc[t] = "request"
    /\ ~IsLastAttempt(attempt[t])
    /\ \E r \in menu, jitter \in Jitters :
         /\ r.status = "err"
         /\ Received(t, r)
         /\ StartSleep(t, "err", SleepErr(backoff[t], jitter))
    /\ UNCHANGED <<callers, menu, since_last, lock, attempt, result, nreq,
                   admitted, span>>
    /\ UNCHANGED <<crawlVars, featVars, workVars>>

\* `if attempt == retries - 1: raise`
AnswerErrRaise(t) ==
    /\ fpc[t] = "request"
    /\ IsLastAttempt(attempt[t])
    /\ \E r \in menu :
         /\ r.status = "err"
         /\ Received(t, r)
    /\ fpc' = [fpc EXCEPT ![t] = "failed"]
    /\ result' = [result EXCEPT ![t] = "raise"]
    /\ UNCHANGED <<callers, menu, since_last, lock, attempt, backoff, timer,
                   sleeps, nreq, admitted, span>>
    /\ UNCHANGED <<crawlVars, featVars, workVars>>

\* A retry sleep is over: the next iteration of the for-loop, or its end.
Wake(t) ==
    /\ fpc[t] = "backoff" /\ timer[t] = 0
    /\ attempt' = [attempt EXCEPT ![t] = @ + 1]
    /\ IF attempt[t] + 1 < retries
       THEN /\ fpc' = [fpc EXCEPT ![t] = "top"]
            /\ UNCHANGED result
       ELSE /\ fpc' = [fpc EXCEPT ![t] = "done"]       \* the function ends
            /\ result' = [result EXCEPT ![t] = "none"]
    /\ UNCHANGED <<callers, menu, since_last, lock, backoff, timer, resps,
                   sleeps, nreq, admitted, span>>
    /\ UNCHANGED <<crawlVars, featVars, workVars>>

Running == {t \in Tasks : fpc[t] \in {"top", "pacing", "request", "backoff"}}

\* 0.05 s pass.
Tick ==
    /\ Running # {}
    /\ timer' = [t \in Tasks |-> Max(0, timer[t] - 1)]
    /\ since_last' = Min(MIN_DELAY, since_last + 1)
    /\ span' = IF admitted > 0 THEN Min(SpanCap, span + 1) ELSE span
    /\ UNCHANGED <<callers, menu, lock, fpc, attempt, backoff, result, resps,
                   sleeps, nreq, admitted>>
    /\ UNCHANGED <<crawlVars, featVars, workVars>>

\* One caller and every answer, or all callers and the answers that need no
\* long sleep.
InitFetch ==
    /\ cutoff = MaxYear /\ max_depth = MaxDepth /\ max_nodes = MaxNodes
    /\ pc = "idle"
    /\ CrawlStart
    /\ \/ callers \in {{t} : t \in Tasks} /\ menu = AllAnswers
       \/ callers = Tasks /\ menu = QuickAnswers
    /\ FetchStart
    /\ FeatStart
    /\ WorkStart

NextFetch ==
    \/ \E t \in Tasks :
         \/ Enter(t) \/ Paced(t)
         \/ Answer429(t) \/ Answer404(t) \/ Answer200(t)
         \/ AnswerErrRetry(t) \/ AnswerErrRaise(t)
         \/ Wake(t)
    \/ Tick

SpecFetch == InitFetch /\ [][NextFetch]_vars

\* ===================================================== compute_features.py
\* ------------------------------------------------ time_slice_citation_count
AuthorIds == {"A1", "A2"}

\* What the author endpoint answers: counts_by_year, or no answer at all
\* (requests.get raises).
Served(series) == [ok |-> TRUE, counts_by_year |-> series]
Refused        == [ok |-> FALSE, counts_by_year |-> << >>]
YearCount(y, n) == [year |-> y, cited_by_count |-> n]

Worlds ==
    {[a \in AuthorIds |-> Served(<< >>)],
     ("A1" :> Served(<<YearCount(2, 30), YearCount(1, 10)>>))
        @@ ("A2" :> Served(<<YearCount(2, 20)>>)),
     ("A1" :> Served(<<YearCount(1, 10)>>)) @@ ("A2" :> Refused)}

Count(n) == [raised |-> FALSE, value |-> n]
Raise    == [raised |-> TRUE, value |-> 0]

\* `for entry in author_info: if year <= entry.get("year"): return ...`
RECURSIVE FirstCount(_, _)
FirstCount(series, year) ==
    IF series = << >> THEN 0
    ELSE IF year <= Head(series).year THEN Head(series).cited_by_count
         ELSE FirstCount(Tail(series), year)

\* year is meta.get("publication_year"): None when the key is absent, and
\* `None <= int` is a TypeError.
time_slice_citation_count(answer, year) ==
    IF ~answer.ok THEN Raise
    ELSE IF answer.counts_by_year = << >> THEN Count(0)
    ELSE IF year = {} THEN Raise
    ELSE Count(FirstCount(answer.counts_by_year, Get(year, 0)))

\* ------------------------------------------------------- build_author_graph
\* The (doi, authorship) pairs in the order the two nested loops meet them,
\* less those skipped by `if not author_id: continue`.
RECURSIVE Visits(_, _)
Visits(net, order) ==
    IF order = << >> THEN << >>
    ELSE LET doi   == Head(order)
             ships == SelectSeq(net.nodes[doi].authorships, HasAuthorId)
         IN  [i \in 1..Len(ships) |-> <<doi, ships[i]>>] \o Visits(net, Tail(order))

\* auth.get("institutions", []): the authorships modelled carry no such key.
InstIds(ship) == {}

\* The loop filling author_info; `calls` lists the lookups it makes.  A lookup
\* that raises ends build_author_graph.
RECURSIVE FillAuthorInfo(_, _, _, _, _)
FillAuthorInfo(net, w, visits, info, calls) ==
    IF visits = << >> THEN [raised |-> FALSE, info |-> info, calls |-> calls]
    ELSE LET doi  == Head(visits)[1]
             ship == Head(visits)[2]
             id   == AuthorId(ship)
         IN  IF id \in DOMAIN info
             THEN FillAuthorInfo(net, w, Tail(visits),
                      [info EXCEPT ![id].dois = @ \cup {doi},
                                   ![id].inst_ids = @ \cup InstIds(ship)],
                      calls)
             ELSE LET year == net.nodes[doi].publication_year
                      cc   == time_slice_citation_count(w[id], year)
                  IN  IF cc.raised
                      THEN [raised |-> TRUE, info |-> info,
                            calls |-> Append(calls, <<id, year>>)]
                      ELSE FillAuthorInfo(net, w, Tail(visits),
                               info @@ (id :> [dois |-> {doi},
                                               inst_ids |-> InstIds(ship),
                                               citation_count |-> cc.value]),
                               Append(calls, <<id, year>>))

\* G.add_node(author_id, dois=..., inst_ids=...)
NodeAttrs(info) == [dois |-> info.dois, inst_ids |-> info.inst_ids]

\* doi_to_authors.get(doi, []), and the cross product added per citation edge
AuthorsOfDoi(info, doi) == {a \in DOMAIN info : doi \in info[a].dois}

AuthorGraphEdges(net, info) ==
    UNION {AuthorsOfDoi(info, net.edges[i][1]) \X AuthorsOfDoi(info, net.edges[i][2])
             : i \in 1..Len(net.edges)}

\* The nx.DiGraph returned: G.nodes(data=True) and G.edges().
AuthorGraph(net, info) ==
    [attrs |-> [a \in DOMAIN info |-> NodeAttrs(info[a])],
     edges |-> AuthorGraphEdges(net, info)]

\* --------------------------------------------------------- gini_coefficient
OutDegree(E, n) == Cardinality({e \in E : e[1] = n})
InDegree(E, n)  == Cardinality({e \in E : e[2] = n})

RECURSIVE Insert(_, _)
Insert(x, sorted) ==
    IF sorted = << >> THEN <<x>>
    ELSE IF x <= Head(sorted) THEN <<x>> \o sorted
         ELSE <<Head(sorted)>> \o Insert(x, Tail(sorted))

\* sorted([d for n, d in G.out_degree()]), taken over the nodes in any order
RECURSIVE SortedDegrees(_, _)
SortedDegrees(E, ns) ==
    IF ns = {} THEN << >>
    ELSE LET n == CHOOSE x \in ns : TRUE
         IN  Insert(OutDegree(E, n), SortedDegrees(E, ns \ {n}))

RECURSIVE Sum(_)
Sum(seq) == IF seq = << >> THEN 0 ELSE Head(seq) + Sum(Tail(seq))

\* np.cumsum
Cumsum(seq) == [i \in 1..Len(seq) |-> Sum(SubSeq(seq, 1, i))]

\* np.trapezoid(y, x) for y = cumulative / total and x = (1..n) / n, times
\* 2 * n * total: the sum of (y[i] + y[i+1]) * (x[i+1] - x[i]) over the n - 1
\* intervals between the n points.
Trapezoid2nT(cumulative) ==
    Sum([i \in 1..(Len(cumulative) - 1) |-> cumulative[i] + cumulative[i + 1]])

Ratio(num, den) == [num |-> num, den |-> den]

\* A = 0.5 - B and gini = A / (A + B), so gini = 1 - 2B: an exact fraction.
gini_coefficient(G) ==
    LET degs  == SortedDegrees(G.edges, DOMAIN G.attrs)
        total == Sum(degs)
        n     == Len(degs)
    IN  IF total = 0 THEN Ratio(0, 1)
        ELSE Ratio(n * total - Trapezoid2nT(Cumsum(degs)), n * total)

\* ----------------------------------------------------------- assortativity
HasKey(rec, key) == key \in DOMAIN rec

\* H holds the nodes with a non-empty inst_ids; None below two of them.
assortativity_by_inst(G) ==
    LET H == {a \in DOMAIN G.attrs : G.attrs[a].inst_ids # {}}
    IN  IF Cardinality(H) < 2 THEN "null" ELSE "num"

\* data.get('citation_count', 0) > 0
CitationCountOr0(attrs) ==
    IF HasKey(attrs, "citation_count") THEN attrs["citation_count"] ELSE 0

assortativity_by_citation_count(G) ==
    LET H == {a \in DOMAIN G.attrs : CitationCountOr0(G.attrs[a]) > 0}
    IN  IF Cardinality(H) < 2 THEN "null" ELSE "num"

\* ---------------------------------------------------------------- pbi_mean
\* base_scores: the nodes whose d.get("citation_count") is not None.
BaseScores(G) == {a \in DOMAIN G.attrs : HasKey(G.attrs[a], "citation_count")}

pbi_mean(G) ==
    LET base == BaseScores(G)
    IN  IF Cardinality(base) < 2 THEN "null"
        ELSE IF \A a, b \in base :
                   G.attrs[a]["citation_count"] = G.attrs[b]["citation_count"]
             THEN "null"                                \* std_base == 0
             ELSE "num"

\* -------------------------------------------------- features_from_network
\* G = nx.DiGraph(net["edges"]) makes a node of every endpoint of every edge;
\* the loop over net["nodes"] then adds the recorded papers.
PaperGraphNodes(net) ==
    {net.edges[i][1] : i \in 1..Len(net.edges)}
      \cup {net.edges[i][2] : i \in 1..Len(net.edges)}
      \cup DOMAIN net.nodes

PaperGraphEdges(net) == {net.edges[i] : i \in 1..Len(net.edges)}

radius == 1         \* nx.ego_graph(G, root_doi): the default radius

\* The nodes within r steps along the edges.
RECURSIVE Within(_, _, _)
Within(E, ns, r) ==
    IF r = 0 THEN ns
    ELSE Within(E, ns \cup {e[2] : e \in {x \in E : x[1] \in ns}}, r - 1)

\* nx.ego_graph: the subgraph induced by the nodes within `radius` of the root
EgoNodes(net, root) == Within(PaperGraphEdges(net), {root}, radius)
EgoEdges(net, root) ==
    {e \in PaperGraphEdges(net) :
        e[1] \in EgoNodes(net, root) /\ e[2] \in EgoNodes(net, root)}

\* nx.random_reference raises NetworkXError on a graph of fewer than four
\* nodes, and the `except Exception` turns it into None.  From four nodes on
\* the value is a number, or None when Cr or L is zero.
SigmaSw(ns) == IF Cardinality(ns) < 4 THEN "null" ELSE "num or null"

Raised(calls) == [raised |-> TRUE, feats |-> << >>, calls |-> calls]

\* features_from_network(net, root_doi) against the author API w.
\*   nx.ego_graph raises NodeNotFound for a root that is not in G;
\*   community_louvain.modularity raises ValueError on a graph without links;
\*   a lookup that raises is not caught either.
features_from_network(net, root, w) ==
    IF root \notin PaperGraphNodes(net) THEN Raised(<< >>)
    ELSE IF EgoEdges(net, root) = {} THEN Raised(<< >>)
    ELSE LET filled == FillAuthorInfo(net, w, Visits(net, net.order), << >>, << >>)
             AG     == AuthorGraph(net, filled.info)
         IN  IF filled.raised THEN Raised(filled.calls)
             ELSE [raised |-> FALSE,
                   calls  |-> filled.calls,
                   feats  |-> <<[doi         |-> root,
                                 n_nodes     |-> Cardinality(EgoNodes(net, root)),
                                 in_deg      |-> InDegree(PaperGraphEdges(net), root),
                                 out_deg     |-> OutDegree(PaperGraphEdges(net), root),
                                 clust_coef  |-> "num",
                                 betweenness |-> "num",
                                 modularity  |-> "num",
                                 sigma_sw    |-> SigmaSw(EgoNodes(net, root)),
                                 gini        |-> gini_coefficient(AG),
                                 assort_inst |-> assortativity_by_inst(AG),
                                 assort_citation |->
                                     assortativity_by_citation_count(AG),
                                 pbi_mean    |-> pbi_mean(AG)]>>]

\* run_worker hands the dict fetch_network_sync returned to
\* features_from_network.
Extract ==
    /\ pc = "done" /\ xpc = "idle"
    /\ \E w \in Worlds :
         LET r == features_from_network(network[1], root_doi, w) IN
         /\ world' = w
         /\ xpc' = IF r.raised THEN "raised" ELSE "ok"
         /\ feats' = r.feats
         /\ lookups' = r.calls
    /\ UNCHANGED <<crawlVars, fetchVars, workVars>>

NextFeat == Iterate \/ Return \/ Extract

\* A crawl followed by the feature extraction over what it returned.
SpecFeat == Init /\ [][NextFeat]_vars

\* =========================================================== run_worker.py
MaxRoots == 3       \* a chunk holds 0..MaxRoots roots

Dois == {"10.1/a", "10.1/b"}

Chunks == UNION {[1..n -> Dois] : n \in 0..MaxRoots}

\* What the environment does to a root: its crawl raises (a fetch that ran
\* out of retries), the raw file cannot be opened (OSError), the extraction
\* raises, or all three steps return.
Fates == {"crawl raises", "open raises", "extract raises", "fine"}

\* doi.replace('/', '_') + ".json"
RawName(doi) == <<doi, "json">>

\* orjson.dumps(net): the bytes written to the "wb" file
JsonDumps(net) == [bytes |-> net]

InitWorker ==
    /\ cutoff = MaxYear /\ max_depth = MaxDepth /\ max_nodes = MaxNodes
    /\ pc = "idle"
    /\ CrawlStart
    /\ callers = {} /\ menu = {}
    /\ FetchStart
    /\ FeatStart
    /\ chunk \in Chunks
    /\ plan \in [1..Len(chunk) -> Fates]
    /\ idx = 0
    /\ out_rows = << >>
    /\ raw_files = << >>
    /\ csv = << >>
    /\ wpc = "loop"
    /\ worker_log = << >>

\* Fault variant: no handler around the loop body, the exception leaves main.
FailedUncaught(doi) ==
    /\ wpc' = "aborted"
    /\ UNCHANGED <<worker_log, idx, out_rows>>

\* `except Exception as e: log.exception(...)`, then the next root.
Failed(doi) ==
    /\ worker_log' = Append(worker_log, <<doi, "failed">>)
    /\ idx' = idx + 1
    /\ UNCHANGED <<out_rows, wpc>>

\* fetch_network_sync raises inside the try.
RootCrawlRaises ==
    /\ wpc = "loop" /\ idx < Len(chunk)
    /\ plan[idx + 1] = "crawl raises"
    /\ Failed(chunk[idx + 1])
    /\ UNCHANGED <<chunk, plan, raw_files, csv>>
    /\ UNCHANGED <<crawlVars, fetchVars, featVars>>

\* fetch_network_sync returns, the raw file cannot be written.
RootSaveRaises ==
    /\ wpc = "loop" /\ idx < Len(chunk)
    /\ plan[idx + 1] = "open raises"
    /\ Failed(chunk[idx + 1])
    /\ UNCHANGED <<chunk, plan, raw_files, csv>>
    /\ UNCHANGED <<crawlVars, fetchVars, featVars>>

\* The network is saved, features_from_network raises.
RootExtractRaises ==
    /\ wpc = "loop" /\ idx < Len(chunk)
    /\ plan[idx + 1] = "extract raises"
    /\ raw_files' = (RawName(chunk[idx + 1]) :> JsonDumps("net")) @@ raw_files
    /\ Failed(chunk[idx + 1])
    /\ UNCHANGED <<chunk, plan, csv>>
    /\ UNCHANGED <<crawlVars, fetchVars, featVars>>

\* The whole try body runs: out_rows.append(feats).
RootDone ==
    /\ wpc = "loop" /\ idx < Len(chunk)
    /\ plan[idx + 1] = "fine"
    /\ LET doi == chunk[idx + 1] IN
       /\ raw_files' = (RawName(doi) :> JsonDumps("net")) @@ raw_files
       /\ out_rows' = Append(out_rows, [doi |-> doi])
       /\ worker_log' = Append(worker_log, <<doi, "done">>)
       /\ idx' = idx + 1
    /\ UNCHANGED <<chunk, plan, csv, wpc>>
    /\ UNCHANGED <<crawlVars, fetchVars, featVars>>

\* After the loop: pd.DataFrame(out_rows).to_csv(out_path, index=False)
WriteCsv ==
    /\ wpc = "loop" /\ idx = Len(chunk)
    /\ csv' = <<out_rows>>
    /\ wpc' = "done"
    /\ UNCHANGED <<chunk, plan, idx, out_rows, raw_files, worker_log>>
    /\ UNCHANGED <<crawlVars, fetchVars, featVars>>

NextWorker ==
    \/ RootCrawlRaises \/ RootSaveRaises \/ RootExtractRaises \/ RootDone
    \/ WriteCsv

SpecWorker == InitWorker /\ [][NextWorker]_vars

\* ================================================================== claims
Range(seq) == {seq[i] : i \in 1..Len(seq)}

YearOf(meta) == Get(meta.publication_year, 0)

Returned == pc = "done" /\ Len(network) = 1

ResultOf(d) == IF d \in DOMAIN fetch_log THEN fetch_log[d].result ELSE "unfetched"

\* C1: in every state of a crawl, and in the Network it returns, no key of
\* `nodes` has a fetched publication_year greater than cutoff.
C1_NoNodeAfterCutoff ==
    /\ \A d \in DOMAIN nodes : YearOf(nodes[d]) <= cutoff
    /\ Returned => \A d \in DOMAIN network[1].nodes :
                       YearOf(network[1].nodes[d]) <= cutoff

\* A crawl that fetched a paper published after the cutoff, recorded others,
\* and returned.
C1_Witness ==
    /\ Returned
    /\ nodes # << >>
    /\ \E d \in DOMAIN fetch_log : fetch_log[d].result = "cutoff"

\* C2: the source of every recorded edge was dequeued at a depth below
\* max_depth, and nothing is ever in the frontier at a depth above max_depth.
C2_DepthBound ==
    /\ \A e \in Range(edges) :
          e[1] \in DOMAIN fetch_log /\ fetch_log[e[1]].depth < max_depth
    /\ \A d \in DOMAIN fetch_log :
          fetch_log[d].depth >= max_depth => \A e \in Range(edges) : e[1] # d
    /\ \A f \in Range(frontier) : f[2] <= max_depth

\* A node recorded at depth max_depth >= 1 that has references: it is not
\* expanded.
C2_Witness ==
    \E d \in DOMAIN nodes :
        /\ fetch_log[d].depth = max_depth
        /\ max_depth >= 1
        /\ nodes[d].referenced_works # << >>

\* C3: len(nodes) never exceeds max_nodes, in the returned Network too, and no
\* loop iteration can start once len(nodes) has reached max_nodes.
C3_NodeCap ==
    /\ Cardinality(DOMAIN nodes) <= max_nodes
    /\ Returned => Cardinality(DOMAIN network[1].nodes) <= max_nodes
    /\ Cardinality(DOMAIN nodes) >= max_nodes => ~ENABLED Iterate

\* A crawl stopped by the cap with items left in the frontier.
C3_Witness ==
    /\ Returned
    /\ Cardinality(DOMAIN nodes) = max_nodes
    /\ frontier # << >>

\* C4: the source of every edge is a key of `nodes`; an identifier that was not
\* recorded (pruned by the cutoff, not found, or never fetched) is no key of
\* `nodes` although it may be an edge target; every reference of a node
\* expanded below max_depth is an edge, whatever became of the referenced paper.
C4_EdgeEndpoints ==
    /\ \A e \in Range(edges) : e[1] \in DOMAIN nodes
    /\ \A d \in Papers : ResultOf(d) # "recorded" => d \notin DOMAIN nodes
    /\ \A d \in DOMAIN nodes :
          fetch_log[d].depth < max_depth =>
              \A u \in Range(nodes[d].referenced_works) :
                  <<d, RefDoi(u)>> \in Range(edges)
    /\ Returned => network[1].nodes = nodes /\ network[1].edges = edges

\* A returned Network with an edge to a paper pruned by the cutoff, one to a
\* paper that was not found, or one to a paper never fetched.
C4_Witness ==
    /\ Returned
    /\ \E e \in Range(edges) :
          /\ e[2] \notin DOMAIN nodes
          /\ ResultOf(e[2]) \in {"cutoff", "notfound", "unfetched"}

\* C8 (as claimed): a fetch whose retry budget is exhausted by transient
\* errors does not abort the crawl, and the identifier is not recorded.
C8_TransientFailureIsolated ==
    \A d \in DOMAIN fetch_log :
        fetch_log[d].result = "raise" => pc # "raised" /\ d \notin DOMAIN nodes

\* C10: when the root is not found or is pruned by the cutoff the crawl does not
\* raise, nothing is recorded or left to do, and the Network it returns has an
\* empty root_meta and empty nodes and edges.
C10_RootPruned ==
    ResultOf(root_doi) \in {"notfound", "cutoff"} =>
        /\ pc \in {"loop", "done"}
        /\ nodes = << >> /\ edges = << >> /\ frontier = << >>
        /\ pc = "loop" => ENABLED Return
        /\ pc = "done" =>
              /\ Len(network) = 1
              /\ network[1].root_meta = {}
              /\ root_doi \notin DOMAIN network[1].nodes
              /\ network[1].nodes = << >>
              /\ network[1].edges = << >>

\* The crawl returned after its root was not found or was pruned.
C10_Witness ==
    /\ Returned
    /\ ResultOf(root_doi) \in {"notfound", "cutoff"}

AllErr(t) == resps[t] # << >> /\ \A i \in 1..Len(resps[t]) : resps[t][i].status = "err"

\* C5: a call all of whose attempts end in a transient error sends exactly 3
\* requests and then raises; it sends no 4th request and returns no value.
C5_TransientBudget ==
    \A t \in Tasks :
        AllErr(t) =>
            /\ nreq[t] <= retries
            /\ result[t] \in {"", "raise"}
            /\ fpc[t] # "done"
            /\ Len(resps[t]) = retries => fpc[t] = "failed" /\ result[t] = "raise"
            /\ fpc[t] = "failed" => nreq[t] = retries

\* A call that failed after three transient errors.
C5_Witness ==
    \E t \in Tasks : AllErr(t) /\ fpc[t] = "failed" /\ nreq[t] = retries

RetryAfter2ThenOk(t) ==
    /\ Len(resps[t]) = 2
    /\ resps[t][1] = Answer("429", Hdr("int", 2))
    /\ resps[t][2].status = "200"

\* C6: a call answered 429 with Retry-After: 2 and then 200 sleeps once, for at
\* least 2 seconds, and returns the JSON body after 2 requests.
C6_RetryAfterHonoured ==
    \A t \in Tasks :
        RetryAfter2ThenOk(t) =>
            /\ fpc[t] = "done" /\ result[t] = "json"
            /\ nreq[t] = 2
            /\ Len(sleeps[t]) = 1
            /\ sleeps[t][1].cause = "429"
            /\ sleeps[t][1].ticks >= Sec(2)

\* Such a call has returned.
C6_Witness ==
    \E t \in Tasks : RetryAfter2ThenOk(t) /\ fpc[t] = "done"

\* C7 (as claimed): a call returns None only if one of its attempts was
\* answered 404.
C7_NoneOnlyOn404 ==
    \A t \in Tasks :
        result[t] = "none" => \E i \in 1..Len(resps[t]) : resps[t][i].status = "404"

\* C9: two successive writes of _last_call are at least MIN_DELAY apart, so n
\* of them span at least (n-1)*MIN_DELAY; a task between its read of _last_call
\* and its write holds the lock, and no other task writes _last_call meanwhile.
C9_RateCap ==
    /\ [][admitted' # admitted => since_last >= MIN_DELAY]_vars
    /\ [][\A t \in Tasks : fpc[t] = "pacing" /\ admitted' # admitted
                               => fpc'[t] = "request"]_vars
    /\ [](\A t \in Tasks : fpc[t] = "pacing" => lock = t)
    /\ [](admitted > 0 => span >= Min(SpanCap, (admitted - 1) * MIN_DELAY))

\* After a first write of _last_call, one caller sleeps inside the critical
\* section while the other is at the lock.
C9_Witness ==
    \E t, u \in Tasks :
        /\ t # u
        /\ admitted >= 1
        /\ fpc[t] = "pacing" /\ timer[t] > 0 /\ lock = t
        /\ fpc[u] = "top"

\* The step-by-step _get_json and GetJson agree on every finished call.
Padded(t) == [i \in 1..retries |->
                 IF i <= Len(resps[t]) THEN resps[t][i].status ELSE "200"]

GetJsonAgrees ==
    \A t \in Tasks :
        fpc[t] \in {"done", "failed"} =>
            /\ result[t] = GetJson(Padded(t)).kind
            /\ nreq[t] = GetJson(Padded(t)).requests

\* C17: within one crawl every identifier is fetched at most once and expanded
\* at most once, whatever duplicates, cycles and self-references the
\* reference lists hold; dequeuing an identifier already in visited fetches
\* nothing and adds nothing to nodes, edges, authors or author_edges.
EdgesFrom(d) == {i \in 1..Len(edges) : edges[i][1] = d}

FetchedAndExpandedOnce ==
    /\ \A d \in DOMAIN fetch_log : fetch_log[d].fetches = 1
    /\ DOMAIN fetch_log = visited
    /\ \A d \in Papers :
          Cardinality(EdgesFrom(d)) \in
              {0} \cup {Len(nodes[x].referenced_works) : x \in {d} \cap DOMAIN nodes}

VisitedIsSkipped ==
    (pc = "loop" /\ LoopCond /\ frontier[1][1] \in visited) =>
        /\ frontier' = Tail(frontier)
        /\ UNCHANGED <<visited, nodes, node_order, edges, authors, author_edges,
                       fetch_log, pc>>

C17_FetchedAtMostOnce == [][VisitedIsSkipped]_vars /\ []FetchedAndExpandedOnce

\* A finished crawl of a root that lists itself: the second time it was
\* dequeued it was skipped.
C17_Witness ==
    /\ Returned
    /\ frontier = << >>
    /\ <<"W0", "W0">> \in Range(edges)
    /\ fetch_log["W0"].fetches = 1
    /\ Len(edges) + 1 > Cardinality(DOMAIN fetch_log)

\* C18: every authorship with an author id of a recorded paper appends exactly
\* one (author id, paper id) pair and inserts the author only if the id is
\* new, so the record first seen is kept and never overwritten; every pair
\* names a key of `authors` and a key of `nodes`; papers pruned or not found
\* contribute no author and no pair.
PairsOf(d) == SelectSeq(author_edges, LAMBDA e : e[2] = d)

IdShips(d) == SelectSeq(nodes[d].authorships, HasAuthorId)

\* The authorship that introduced author a: the first one with that id in the
\* paper of the first pair naming a.
FirstShip(a) ==
    LET i     == CHOOSE k \in 1..Len(author_edges) :
                    /\ author_edges[k][1] = a
                    /\ \A j \in 1..(k - 1) : author_edges[j][1] # a
        ships == IdShips(author_edges[i][2])
        n     == CHOOSE k \in 1..Len(ships) :
                    /\ AuthorId(ships[k]) = a
                    /\ \A j \in 1..(k - 1) : AuthorId(ships[j]) # a
    IN  ships[n]

AuthorTablesConsistent ==
    /\ \A i \in 1..Len(author_edges) :
          /\ author_edges[i][1] \in DOMAIN authors
          /\ author_edges[i][2] \in DOMAIN nodes
    /\ DOMAIN authors = {author_edges[i][1] : i \in 1..Len(author_edges)}
    /\ \A d \in DOMAIN nodes :
          PairsOf(d) = [i \in 1..Len(IdShips(d)) |-> <<AuthorId(IdShips(d)[i]), d>>]
    /\ \A a \in DOMAIN authors : authors[a] = AuthorOf(FirstShip(a))

AuthorNeverOverwritten ==
    \A a \in DOMAIN authors : a \in DOMAIN authors' /\ authors'[a] = authors[a]

C18_AuthorsFirstSeenWins == [][AuthorNeverOverwritten]_vars /\ []AuthorTablesConsistent

\* A1 was first seen as "n1" on the root; a paper recorded later names the
\* same id "n4", and a third paper was pruned or not found.
C18_Witness ==
    /\ Returned
    /\ "A1" \in DOMAIN authors
    /\ authors["A1"].display_name = "n1"
    /\ \E d \in DOMAIN nodes :
          /\ <<"A1", d>> \in Range(author_edges)
          /\ \E i \in 1..Len(nodes[d].authorships) :
                nodes[d].authorships[i] = Authorship({Author({"A1"}, "n4")})
    /\ \E d \in visited \ DOMAIN nodes : TRUE

\* C19: for every finite citation graph and finite max_depth and max_nodes,
\* if every fetch call returns, the crawl terminates: the loop is left because
\* the frontier is empty or len(nodes) has reached max_nodes, and the Network
\* is returned.
C19_CrawlTerminates ==
    [](pc # "raised") =>
        <>(Returned /\ (frontier = << >> \/ Cardinality(DOMAIN nodes) >= max_nodes))

\* A crawl that went round the cycle W0 -> W1 -> W0 and emptied its frontier.
C19_Witness ==
    /\ Returned
    /\ frontier = << >>
    /\ max_depth = MaxDepth
    /\ {<<"W0", "W1">>, <<"W1", "W0">>} \subseteq Range(edges)

\* ------------------------------------------------- claims on SpecFeat
Extracted == pc = "done" /\ xpc = "ok" /\ Len(feats) = 1

RecordedReachable(net, root) ==
    Within(PaperGraphEdges(net), {root}, Cardinality(Papers)) \cap DOMAIN net.nodes

\* C11: the citation graph that feature extraction builds has exactly one node
\* per recorded paper (key of `nodes`), so n_nodes never counts an identifier
\* that appears only as the target of an edge; with a root whose references
\* are a (kept) and b (after the cutoff) at max_depth 1, n_nodes is 2.
C11_OneNodePerRecordedPaper ==
    Extracted =>
        /\ PaperGraphNodes(network[1]) = DOMAIN network[1].nodes
        /\ feats[1].n_nodes <= Cardinality(DOMAIN network[1].nodes)
        /\ (/\ max_depth = 1
            /\ DOMAIN network[1].nodes = {"W0", "W1"}
            /\ network[1].edges = <<<<"W0", "W1">>, <<"W0", "W2">>>>)
           => feats[1].n_nodes = 2

\* C12: the ego subgraph holds the root and every recorded paper reachable from
\* the root, at whatever distance the crawl reached it: for the chain
\* root -> a -> c crawled with max_depth 2, n_nodes counts all three.
C12_EgoSpansTheCrawl ==
    Extracted =>
        /\ RecordedReachable(network[1], root_doi) \subseteq EgoNodes(network[1], root_doi)
        /\ feats[1].n_nodes >= Cardinality(RecordedReachable(network[1], root_doi))

FeatureKeys == {"doi", "n_nodes", "in_deg", "out_deg", "clust_coef", "betweenness",
                "modularity", "sigma_sw", "gini", "assort_inst", "assort_citation",
                "pbi_mean"}

\* No lookup that was made raised.
EveryLookupSucceeded ==
    \A i \in 1..Len(lookups) :
        ~time_slice_citation_count(world[lookups[i][1]], lookups[i][2]).raised

\* C13: for every Network the crawl returns - the one of a pruned root
\* included - and with every author lookup succeeding, features_from_network
\* returns a record holding `doi` and every metric key; it never raises.
C13_ExtractNeverRaises ==
    (pc = "done" /\ xpc # "idle" /\ EveryLookupSucceeded) =>
        /\ xpc = "ok"
        /\ Len(feats) = 1
        /\ DOMAIN feats[1] = FeatureKeys

\* What build_author_graph made of the returned network, once extracted.
InfoBuilt  == FillAuthorInfo(network[1], world,
                             Visits(network[1], network[1].order), << >>, << >>).info
GraphBuilt == AuthorGraph(network[1], InfoBuilt)

\* The first paper, in the order of `nodes`, with an authorship of author a.
FirstSeenIn(a) ==
    LET vs == Visits(network[1], network[1].order)
        i  == CHOOSE k \in 1..Len(vs) :
                 /\ AuthorId(vs[k][2]) = a
                 /\ \A j \in 1..(k - 1) : AuthorId(vs[j][2]) # a
    IN  vs[i][1]

\* C14: every node of the author graph carries a time-sliced citation count,
\* got by exactly one lookup per distinct author with the publication year of
\* the author's first-seen paper; assort_citation and pbi_mean work on these
\* counts, so pbi_mean is defined when two authors have different counts.
C14_AuthorNodesCarryCounts ==
    Extracted =>
        /\ Len(lookups) = Cardinality(DOMAIN InfoBuilt)
        /\ \A a \in DOMAIN InfoBuilt :
              /\ \E i \in 1..Len(lookups) :
                    lookups[i] = <<a, network[1].nodes[FirstSeenIn(a)].publication_year>>
              /\ HasKey(GraphBuilt.attrs[a], "citation_count")
              /\ GraphBuilt.attrs[a]["citation_count"] = InfoBuilt[a].citation_count
        /\ (\E a, b \in DOMAIN InfoBuilt :
               InfoBuilt[a].citation_count # InfoBuilt[b].citation_count)
           => feats[1].pbi_mean # "null"

DegreesBuilt == {OutDegree(GraphBuilt.edges, a) : a \in DOMAIN GraphBuilt.attrs}

\* C15: gini is 0 when the total out-degree of the author graph is 0, and 0
\* for every author graph whose n >= 1 authors all have the same positive
\* out-degree.
C15_GiniOfEqualDegreesIsZero ==
    Extracted =>
        /\ DegreesBuilt \subseteq {0} => feats[1].gini.num = 0
        /\ (\E d \in 1..Len(network[1].edges) * Cardinality(AuthorIds) :
               DegreesBuilt = {d})
           => feats[1].gini.num = 0

\* ------------------------------------------------ claims on SpecWorker
\* The roots of the chunk whose crawl and extraction both return, in order.
RECURSIVE FineRows(_)
FineRows(n) ==
    IF n = 0 THEN << >>
    ELSE IF plan[n] = "fine" THEN Append(FineRows(n - 1), [doi |-> chunk[n]])
         ELSE FineRows(n - 1)

\* C16: a root whose crawl or extraction raises does not abort the batch: the
\* roots after it are still gone through, the failing root gives no row, each
\* root that succeeds gives exactly one row, and the output file is written
\* after the last root whatever failed before.
C16_FailuresIsolatedPerRoot ==
    /\ wpc \in {"loop", "done"}
    /\ idx <= Len(chunk)
    /\ Len(worker_log) = idx
    /\ out_rows = FineRows(idx)
    /\ wpc = "loop" => csv = << >>
    /\ wpc = "done" => idx = Len(chunk) /\ csv = <<FineRows(Len(chunk))>>

\* A chunk written out whose first root failed in the crawl, whose second
\* failed in the extraction and whose third gave a row.
C16_Witness ==
    /\ wpc = "done"
    /\ Len(chunk) = 3
    /\ plan = <<"crawl raises", "extract raises", "fine">>
    /\ csv = <<<<[doi |-> chunk[3]]>>>>

====
